---------------------------- MODULE Spec2Model ----------------------------
(***************************************************************************)
(* A model of src/cdk.js: the argument-vector builder (_buildParams), the  *)
(* process runner (_runCdk) and the five public operations (init,          *)
(* destroy, deploy, diff, synth) with their result classification.         *)
(*                                                                         *)
(* JavaScript strings are TLA+ strings (\o is concatenation).  A           *)
(* JavaScript value whose type the code inspects (the script and           *)
(* parameters arguments, a promise's settlement value) is a record with a  *)
(* tag t.                                                                  *)
(***************************************************************************)
EXTENDS Naturals, Sequences, FiniteSets

\* ------------------------------------------------------------------ bounds

\* Longest parameter list handed to the builder.
MaxParams == 2
\* Number of operation calls (each with its own child process) in one run.
MaxInv == 2
\* Number of data events (stdout and stderr chunks together) in one run.
MaxChunks == 4
\* Largest exit code a child process reports.
MaxCode == 1

\* ------------------------------------------------------- JavaScript values

Undefined == [t |-> "undefined"]
Str(s) == [t |-> "string", v |-> s]
Arr(a) == [t |-> "array", v |-> a]

IsArray(x) == x.t = "array"

\* ToBoolean: undefined and '' are falsy, every array (the empty one too) is truthy.
Truthy(x) ==
  CASE x.t = "undefined" -> FALSE
    [] x.t = "string" -> x.v # ""
    [] x.t = "array" -> TRUE

RECURSIVE JoinObjects(_)
\* Array.prototype.toString over an array of plain objects.
JoinObjects(n) ==
  IF n = 0 THEN ""
  ELSE IF n = 1 THEN "[object Object]"
  ELSE JoinObjects(n - 1) \o ",[object Object]"

\* The string a template literal `${x}` produces.
JsToString(x) ==
  CASE x.t = "undefined" -> "undefined"
    [] x.t = "string" -> x.v
    [] x.t = "array" -> JoinObjects(Len(x.v))

\* String.prototype.indexOf(t) >= 0
Contains(s, t) ==
  \E k \in 1..(Len(s) + 1) :
    /\ k + Len(t) - 1 <= Len(s)
    /\ SubSeq(s, k, k + Len(t) - 1) = t

\* ------------------------------------------------------------ configuration

AWS_PROFILE == "default"
AWS_REGION == "us-east-1"

\* ---------------------------------------------------------- command builder

PromotedStageOnly(key) == key = "EnvironmentStage"

Promoted(key) == key = "EnvironmentStage" \/ key = "ResourcePrefix"

ParametersTokenNoName(name, p) ==
  "\"" \o p.ParameterKey \o "=" \o p.ParameterValue \o "\""

\* `"${name}:${parameters[i].ParameterKey}=${parameters[i].ParameterValue}"`
ParametersToken(name, p) ==
  "\"" \o name \o ":" \o p.ParameterKey \o "=" \o p.ParameterValue \o "\""

\* `"${parameters[i].ParameterKey}=${parameters[i].ParameterValue}"`
ContextToken(p) ==
  "\"" \o p.ParameterKey \o "=" \o p.ParameterValue \o "\""

PromotedContextFlags(p) ==
  IF Promoted(p.ParameterKey) THEN <<"--context", ContextToken(p)>> ELSE <<>>

\* One iteration of the loop over parameters.
ParameterFlags(name, p) ==
  <<"--parameters", ParametersToken(name, p)>> \o PromotedContextFlags(p)

RECURSIVE ParameterLoop(_, _, _)
\* The loop over parameters, from index i (1-based) to the end.
ParameterLoop(name, ps, i) ==
  IF i > Len(ps) THEN <<>>
  ELSE ParameterFlags(name, ps[i]) \o ParameterLoop(name, ps, i + 1)

GlobalFlags ==
  <<"--profile", AWS_PROFILE, "--region", AWS_REGION, "--require-approval", "never">>

StackNameContextQuoted(name) == <<"--context", "\"StackName=" \o name \o "\"">>

StackNameContext(name) == <<"--context", "StackName=" \o name>>

ScriptPathContext(script) == <<"--context", "ScriptPath=" \o JsToString(script)>>

ShapeSwapNonEmpty(script, parameters) ==
  Truthy(script) /\ ~Truthy(parameters) /\ IsArray(script) /\ Len(script.v) > 0

\* script && !parameters && Array.isArray(script)
ShapeSwap(script, parameters) ==
  Truthy(script) /\ ~Truthy(parameters) /\ IsArray(script)

_buildParams(name, script, parameters) ==
  LET parameters1 == IF ShapeSwap(script, parameters) THEN script ELSE parameters
      script1 == IF ShapeSwap(script, parameters) THEN Undefined ELSE script
      params1 == IF Truthy(parameters1) /\ Len(parameters1.v) > 0
                 THEN GlobalFlags \o ParameterLoop(name, parameters1.v, 1)
                 ELSE GlobalFlags
      params2 == params1 \o StackNameContext(name)
  IN  IF Truthy(script1) THEN params2 \o ScriptPathContext(script1) ELSE params2

\* The argument vectors the five operations hand to _runCdk.
InitArgv(language) == <<"init", "--language", language>>
DestroyArgv(name, parameters) ==
  <<"destroy", name, "--force">> \o _buildParams(name, parameters, Undefined)
DeployArgv(name, script, parameters) ==
  <<"deploy", name>> \o _buildParams(name, script, parameters)
DiffArgv(name, script, parameters) ==
  <<"diff", name>> \o _buildParams(name, script, parameters)
SynthArgv(name, script, parameters) ==
  <<"synth", name>> \o _buildParams(name, script, parameters)

\* ------------------------------------------------------------------- state

VARIABLES
  bArgs,      \* builder run: the arguments <<name, script, parameters>> of a call
  bOut,       \* builder run: the argument vector produced
  bPc,        \* builder run: "args", then the function that was applied
  op,         \* op[i]: the operation call i made ("none" before the call)
  arg,        \* arg[i]: its first argument (the stack name; init's language)
  argv,       \* argv[i]: the params _runCdk handed to spawn
  proc,       \* proc[i]: the child process, "none" | "running" | "closed"
  err,        \* err[i]: _runCdk's local accumulator of call i
  stderrOut,  \* stderrOut[i]: the chunks child i wrote to its stderr, in order
  exitCode,   \* exitCode[i]: <<>> while child i runs, then <<its exit code>>
  logged,     \* logged[i]: what call i and its data handlers passed to console.log
  closeArgs,  \* closeArgs[i]: the <<code, err>> of every onclose invocation
  promise,    \* promise[i]: [state, value] of the promise call i returned
  effects,    \* effects[i]: what the onclose callback did, in order
  nData       \* data events so far

vars == <<bArgs, bOut, bPc, op, arg, argv, proc, err, stderrOut, exitCode, logged,
          closeArgs, promise, effects, nData>>

builderVars == <<bArgs, bOut, bPc>>
runnerVars == <<op, arg, argv, proc, err, stderrOut, exitCode, logged, closeArgs,
                promise, effects, nData>>

\* ------------------------------------------------------------------ inputs

Names == {"S", "my-stack"}
Languages == {"typescript"}
ScriptPaths == {"path.ts"}
ParameterKeys == {"EnvironmentStage", "ResourcePrefix", "Foo", "StackName"}
ParameterValues == {"Bar", "S"}
StackParameters ==
  [ParameterKey : ParameterKeys, ParameterValue : ParameterValues]

RECURSIVE ListsUpTo(_, _)
ListsUpTo(S, n) ==
  IF n = 0 THEN {<<>>}
  ELSE LET shorter == ListsUpTo(S, n - 1)
       IN  shorter \cup {Append(l, x) : l \in shorter, x \in S}

ParameterLists == ListsUpTo(StackParameters, MaxParams)
ShortParameterLists == ListsUpTo(StackParameters, 1)

\* What a caller may pass in the script position: nothing, a path ('' too),
\* or, by the legacy convention, the parameter list.
StringScripts == {Undefined, Str("")} \cup {Str(s) : s \in ScriptPaths}

\* The calls of _buildParams(name, script, parameters) that are explored.
BuilderArgs ==
  {<<n, s, p>> : n \in Names, s \in StringScripts,
                 p \in {Undefined} \cup {Arr(l) : l \in ParameterLists}}
  \cup {<<n, Arr(l), Undefined>> : n \in Names, l \in ParameterLists}
  \cup {<<n, Arr(l), Arr(m)>> : n \in Names, l \in ShortParameterLists,
                                 m \in ShortParameterLists}

Ids == 1..MaxInv
ExitCodes == 0..MaxCode
StdoutChunks == {"out"}
StderrChunks == {"boom", "S (no", " changes)"}

\* The parameter lists the operation calls of a runner run pass.
CallParameters == {<<>>, <<[ParameterKey |-> "Foo", ParameterValue |-> "Bar"]>>}

\* ----------------------------------------------------------- settlements

Pending == [state |-> "pending", value |-> Undefined]
NoPromise == [state |-> "none", value |-> Undefined]
\* What describeStack(name) returns: the collaborator's promise for name.
DescribeStack(name) == [t |-> "describeStack", v |-> name]
Failure(message, e) == [t |-> "failure", message |-> message, err |-> e]
TypeError == [t |-> "TypeError", v |-> "Promise constructor cannot be invoked without 'new'"]

Resolve(value, done) ==
  [state |-> "resolved", value |-> value, effects |-> done \o <<"resolve">>]
Reject(message, e) ==
  [state |-> "rejected", value |-> Failure(message, e), effects |-> <<"reject">>]

\* ----------------------------------------------- the onclose classifiers

destroyOnCloseByStderr(name, code, e) ==
  IF e # "" THEN Reject("Stack undeploy failed", e) ELSE Resolve(Str(name), <<>>)

destroyOnClose(name, code, e) ==
  IF code # 0
  THEN Reject("Stack undeploy failed", e)
  ELSE Resolve(Str(name), <<>>)

deployOnCloseCodeFirst(name, code, e) ==
  IF e # "" /\ code # 0
  THEN Reject("Stack deploy failed", e)
  ELSE IF e # "" /\ Contains(e, name \o " (no changes)")
       THEN Resolve(DescribeStack(name), <<"logger.info", "describeStack">>)
       ELSE Resolve(DescribeStack(name), <<"describeStack">>)

deployOnCloseAnyStderr(name, code, e) ==
  IF e # ""
  THEN IF Contains(e, name \o " (no changes)")
       THEN Resolve(DescribeStack(name), <<"logger.info", "describeStack">>)
       ELSE Reject("Stack deploy failed", e)
  ELSE Resolve(DescribeStack(name), <<"describeStack">>)

deployOnClose(name, code, e) ==
  IF e # ""
  THEN IF Contains(e, name \o " (no changes)")
       THEN Resolve(DescribeStack(name), <<"logger.info", "describeStack">>)
       ELSE IF code # 0
            THEN Reject("Stack deploy failed", e)
            ELSE Resolve(DescribeStack(name), <<"describeStack">>)
  ELSE Resolve(DescribeStack(name), <<"describeStack">>)

diffOnCloseByCode(name, code, e) ==
  IF code # 0 THEN Reject("Stack diff failed", e) ELSE Resolve(Undefined, <<>>)

diffOnClose(name, code, e) ==
  IF e # "" THEN Reject("Stack diff failed", e) ELSE Resolve(Undefined, <<>>)

synthOnClose(name, code, e) ==
  IF e # ""
  THEN Reject("Stack synth failed", e)
  ELSE Resolve(DescribeStack(name), <<"describeStack">>)

\* The callback each operation hands to _runCdk.
OnClose(o, name, code, e) ==
  CASE o = "destroy" -> destroyOnClose(name, code, e)
    [] o = "deploy" -> deployOnClose(name, code, e)
    [] o = "diff" -> diffOnClose(name, code, e)
    [] o = "synth" -> synthOnClose(name, code, e)
    [] o = "_runCdk" ->
         [state |-> "none", value |-> Undefined, effects |-> <<"onclose">>]

\* ------------------------------------------------------------ builder run

IdleRunner ==
  /\ op = [i \in Ids |-> "none"]
  /\ arg = [i \in Ids |-> ""]
  /\ argv = [i \in Ids |-> <<>>]
  /\ proc = [i \in Ids |-> "none"]
  /\ err = [i \in Ids |-> ""]
  /\ stderrOut = [i \in Ids |-> <<>>]
  /\ exitCode = [i \in Ids |-> <<>>]
  /\ logged = [i \in Ids |-> <<>>]
  /\ closeArgs = [i \in Ids |-> <<>>]
  /\ promise = [i \in Ids |-> NoPromise]
  /\ effects = [i \in Ids |-> <<>>]
  /\ nData = 0

InitBuilder ==
  /\ bArgs \in BuilderArgs
  /\ bOut = <<>>
  /\ bPc = "args"
  /\ IdleRunner

\* _buildParams(name, script, parameters)
CallBuildParams ==
  /\ bPc = "args"
  /\ bOut' = _buildParams(bArgs[1], bArgs[2], bArgs[3])
  /\ bPc' = "_buildParams"
  /\ UNCHANGED <<bArgs, runnerVars>>

\* destroy(name, parameters), up to the argument vector it spawns with
CallDestroyArgv ==
  /\ bPc = "args"
  /\ bArgs[2].t \in {"undefined", "array"}
  /\ bArgs[3].t = "undefined"
  /\ bOut' = DestroyArgv(bArgs[1], bArgs[2])
  /\ bPc' = "destroy"
  /\ UNCHANGED <<bArgs, runnerVars>>

\* deploy(name, script, parameters), up to the argument vector it spawns with
CallDeployArgv ==
  /\ bPc = "args"
  /\ bOut' = DeployArgv(bArgs[1], bArgs[2], bArgs[3])
  /\ bPc' = "deploy"
  /\ UNCHANGED <<bArgs, runnerVars>>

NextBuilder == CallBuildParams \/ CallDestroyArgv \/ CallDeployArgv

SpecBuilder == InitBuilder /\ [][NextBuilder]_vars

\* ------------------------------------------------------------- runner run

Init ==
  /\ bArgs = <<"S", Undefined, Undefined>>
  /\ bOut = <<>>
  /\ bPc = "idle"
  /\ IdleRunner

\* Calls are numbered in the order they are made.
CanCall(i) == op[i] = "none" /\ (IF i = 1 THEN TRUE ELSE op[i - 1] # "none")

\* _runCdk(params, onclose) up to its return: the child is spawned, its handlers
\* are registered, err = ''.
RunCdk(i, o, a, params) ==
  /\ CanCall(i)
  /\ op' = [op EXCEPT ![i] = o]
  /\ arg' = [arg EXCEPT ![i] = a]
  /\ argv' = [argv EXCEPT ![i] = params]
  /\ proc' = [proc EXCEPT ![i] = "running"]
  /\ err' = [err EXCEPT ![i] = ""]
  /\ UNCHANGED <<builderVars, stderrOut, exitCode, closeArgs, effects, nData>>

\* return new Promise((resolve, reject) => _runCdk(params, callback))
NewPromise(i, o, name, params) ==
  /\ RunCdk(i, o, name, params)
  /\ promise' = [promise EXCEPT ![i] = Pending]

\* init(language): Promise is called without new, which throws a TypeError
\* before the executor (and so _runCdk, and ever its callback) runs.
InitCall(i) ==
  \E language \in Languages :
    /\ CanCall(i)
    /\ op' = [op EXCEPT ![i] = "init"]
    /\ arg' = [arg EXCEPT ![i] = language]
    /\ promise' = [promise EXCEPT ![i] = [state |-> "threw", value |-> TypeError]]
    /\ UNCHANGED <<builderVars, argv, proc, err, stderrOut, exitCode, logged,
                   closeArgs, effects, nData>>

DestroyCall(i) ==
  \E name \in Names, ps \in CallParameters :
    /\ NewPromise(i, "destroy", name, DestroyArgv(name, Arr(ps)))
    /\ UNCHANGED logged

DeployCall(i) ==
  \E name \in Names, script \in ScriptPaths, ps \in CallParameters :
    /\ NewPromise(i, "deploy", name, DeployArgv(name, Str(script), Arr(ps)))
    /\ UNCHANGED logged

DiffCall(i) ==
  \E name \in Names, script \in ScriptPaths, ps \in CallParameters :
    \* console.log('diff: ', name, script, parameters)
    /\ logged' = [logged EXCEPT ![i] = Append(@, <<"diff: ", name, script, ps>>)]
    /\ NewPromise(i, "diff", name, DiffArgv(name, Str(script), Arr(ps)))

SynthCall(i) ==
  \E name \in Names, script \in ScriptPaths, ps \in CallParameters :
    /\ NewPromise(i, "synth", name, SynthArgv(name, Str(script), Arr(ps)))
    /\ UNCHANGED logged

\* cli.stdout.on('data', ...)
StdoutData(i) ==
  \E data \in StdoutChunks :
    /\ proc[i] = "running"
    /\ nData < MaxChunks
    /\ logged' = [logged EXCEPT ![i] = Append(@, data)]
    /\ nData' = nData + 1
    /\ UNCHANGED <<builderVars, op, arg, argv, proc, err, stderrOut, exitCode,
                   closeArgs, promise, effects>>

AccumulateShared(errs, i, data) == [j \in Ids |-> errs[j] \o data]

\* err += data, on the err of the _runCdk call the handler closes over
Accumulate(errs, i, data) == [errs EXCEPT ![i] = @ \o data]

\* cli.stderr.on('data', ...)
StderrData(i) ==
  \E data \in StderrChunks :
    /\ proc[i] = "running"
    /\ nData < MaxChunks
    /\ stderrOut' = [stderrOut EXCEPT ![i] = Append(@, data)]
    /\ logged' = [logged EXCEPT ![i] = Append(@, data)]
    /\ err' = Accumulate(err, i, data)
    /\ nData' = nData + 1
    /\ UNCHANGED <<builderVars, op, arg, argv, proc, exitCode, closeArgs, promise,
                   effects>>

\* cli.on('close', (code) => onclose(code, err)), with the operation's callback
Close(i) ==
  \E code \in ExitCodes :
    LET r == OnClose(op[i], arg[i], code, err[i])
    IN  /\ proc[i] = "running"
        /\ proc' = [proc EXCEPT ![i] = "closed"]
        /\ exitCode' = [exitCode EXCEPT ![i] = <<code>>]
        /\ closeArgs' = [closeArgs EXCEPT ![i] = Append(@, <<code, err[i]>>)]
        /\ promise' = [promise EXCEPT ![i] = [state |-> r.state, value |-> r.value]]
        /\ effects' = [effects EXCEPT ![i] = r.effects]
        /\ UNCHANGED <<builderVars, op, arg, argv, err, stderrOut, logged, nData>>

\* _runCdk called directly by a caller whose callback only takes its arguments
RunCdkCall(i) ==
  \E params \in {InitArgv(l) : l \in Languages} :
    RunCdk(i, "_runCdk", "", params) /\ UNCHANGED <<promise, logged>>

\* One operation call, every operation and input.
Next ==
  \/ InitCall(1)
  \/ DestroyCall(1)
  \/ DeployCall(1)
  \/ DiffCall(1)
  \/ SynthCall(1)
  \/ StdoutData(1)
  \/ StderrData(1)
  \/ Close(1)

Spec == Init /\ [][Next]_vars

\* MaxInv overlapping calls of _runCdk, their children's events interleaved.
NextConcurrent ==
  \E i \in Ids :
    \/ RunCdkCall(i)
    \/ StdoutData(i)
    \/ StderrData(i)
    \/ Close(i)

SpecConcurrent == Init /\ [][NextConcurrent]_vars

\* ------------------------------------------------- vocabulary of the claims

RECURSIVE Concat(_)
\* The chunks of a stream, joined in arrival order.
Concat(chunks) ==
  IF chunks = <<>> THEN "" ELSE Head(chunks) \o Concat(Tail(chunks))

Range(f) == {f[k] : k \in DOMAIN f}

Closed(i) == proc[i] = "closed"
\* What child i wrote to stderr in all, and the code it exited with.
StderrText(i) == Concat(stderrOut[i])
ExitCodeOf(i) == exitCode[i][1]
NoChangesIn(i) == Contains(StderrText(i), arg[i] \o " (no changes)")

\* C1: a closed deploy whose stderr is non-empty and contains
\* "<name> (no changes)" has, whatever the exit code, not rejected: it logged one
\* informational message, then looked the stack up, then resolved with that lookup.
DeployNoChangesResolves ==
  \A i \in Ids :
    (op[i] = "deploy" /\ Closed(i) /\ StderrText(i) # "" /\ NoChangesIn(i)) =>
      /\ promise[i].state = "resolved"
      /\ promise[i].value = DescribeStack(arg[i])
      /\ effects[i] = <<"logger.info", "describeStack", "resolve">>

DeployNoChangesWitness ==
  \E i \in Ids :
    /\ op[i] = "deploy" /\ Closed(i) /\ NoChangesIn(i)
    /\ ExitCodeOf(i) # 0
    /\ Len(stderrOut[i]) >= 2
    /\ promise[i].state = "resolved"

\* C2: a closed deploy has rejected exactly when its stderr is non-empty, lacks
\* "<name> (no changes)" and the exit code is non-zero; the rejection carries the
\* raw stderr and the stack was not looked up.  In every other case it resolved
\* with the stack lookup for <name>.
DeployRejectsExactly ==
  \A i \in Ids :
    (op[i] = "deploy" /\ Closed(i)) =>
      IF StderrText(i) # "" /\ ~NoChangesIn(i) /\ ExitCodeOf(i) # 0
      THEN /\ promise[i].state = "rejected"
           /\ promise[i].value = Failure("Stack deploy failed", StderrText(i))
           /\ "describeStack" \notin Range(effects[i])
      ELSE /\ promise[i].state = "resolved"
           /\ promise[i].value = DescribeStack(arg[i])

DeployRejectsWitness ==
  \E i \in Ids :
    /\ op[i] = "deploy" /\ Closed(i)
    /\ StderrText(i) = "boom" /\ ExitCodeOf(i) = 1
    /\ promise[i].state = "rejected"

\* C3: a closed destroy has resolved exactly when the exit code is 0, and then
\* with the stack name itself; otherwise it rejected with {message, err}, err the
\* raw stderr (empty or not).  The stack is never looked up.
DestroyByExitCode ==
  \A i \in Ids :
    (op[i] = "destroy" /\ Closed(i)) =>
      /\ "describeStack" \notin Range(effects[i])
      /\ IF ExitCodeOf(i) = 0
         THEN promise[i].state = "resolved" /\ promise[i].value = Str(arg[i])
         ELSE /\ promise[i].state = "rejected"
              /\ promise[i].value = Failure("Stack undeploy failed", StderrText(i))

DestroyWitness ==
  \E i \in Ids :
    /\ op[i] = "destroy" /\ Closed(i)
    /\ ExitCodeOf(i) # 0 /\ StderrText(i) = ""
    /\ promise[i].state = "rejected"

\* C4: every init call returns a promise, not an exception, and has run the tool
\* with the argument vector <<"init", "--language", language>>.
InitRunsTool ==
  \A i \in Ids :
    op[i] = "init" =>
      /\ promise[i].state \in {"pending", "resolved", "rejected"}
      /\ proc[i] # "none"
      /\ argv[i] = <<"init", "--language", arg[i]>>

\* C5: a closed diff or synth has rejected exactly when its stderr is non-empty,
\* whatever the exit code and the stderr's content, with err that stderr;
\* with empty stderr diff resolved with no payload and synth with the stack lookup.
DiffSynthByStderr ==
  \A i \in Ids :
    (op[i] \in {"diff", "synth"} /\ Closed(i)) =>
      IF StderrText(i) # ""
      THEN /\ promise[i].state = "rejected"
           /\ promise[i].value.err = StderrText(i)
      ELSE /\ promise[i].state = "resolved"
           /\ promise[i].value =
                (IF op[i] = "diff" THEN Undefined ELSE DescribeStack(arg[i]))

DiffSynthWitness ==
  \E i \in Ids :
    /\ op[i] = "diff" /\ Closed(i)
    /\ ExitCodeOf(i) = 0 /\ NoChangesIn(i)
    /\ promise[i].state = "rejected"

\* C9: the completion callback of a _runCdk call has not run while its child is
\* open, and once the child has closed it has run exactly once, with the child's
\* exit code and the concatenation, in arrival order, of the chunks that child
\* wrote to its stderr (no stdout chunk, no chunk of another child).
CallbackOnceWithOwnStderr ==
  \A i \in Ids :
    IF Closed(i)
    THEN closeArgs[i] = <<<<ExitCodeOf(i), StderrText(i)>>>>
    ELSE closeArgs[i] = <<>>

CallbackWitness ==
  \E i \in Ids, j \in Ids :
    /\ i # j /\ Closed(i) /\ Closed(j)
    /\ Len(stderrOut[i]) >= 2 /\ Len(logged[i]) > Len(stderrOut[i])
    /\ Len(stderrOut[j]) >= 1
    /\ StderrText(i) # StderrText(j)
    /\ Len(closeArgs[i]) = 1 /\ Len(closeArgs[j]) = 1

\* ------------------------------------------------------ the builder's claims

Built == bPc # "args"
BName == bArgs[1]
\* The tokens the operation puts before the builder's flags.
Lead == CASE bPc = "destroy" -> 3 [] bPc = "deploy" -> 2 [] OTHER -> 0
\* The builder's flags within the argument vector produced.
Flags == SubSeq(bOut, Lead + 1, Len(bOut))

\* The parameter list and the script the call means: a list in the third
\* position is the parameter list; without one, a list in the script position is.
MeantParameters ==
  IF bArgs[3].t = "array" THEN bArgs[3].v
  ELSE IF bArgs[2].t = "array" THEN bArgs[2].v
  ELSE <<>>
MeantScript ==
  IF bArgs[3].t = "undefined" /\ bArgs[2].t = "array" THEN Undefined ELSE bArgs[2]
ScriptGiven == MeantScript.t = "array" \/ (MeantScript.t = "string" /\ MeantScript.v # "")

PromotedKeys == {"EnvironmentStage", "ResourcePrefix"}

HasPrefix(token, prefix) ==
  Len(token) >= Len(prefix) /\ SubSeq(token, 1, Len(prefix)) = prefix

RECURSIVE FlagAt(_, _)
\* Where the '--parameters' flag of the i-th parameter stands among the flags:
\* after the six global tokens and the flags of the parameters before it.
FlagAt(ps, i) ==
  IF i = 1 THEN 7
  ELSE FlagAt(ps, i - 1)
         + (IF ps[i - 1].ParameterKey \in PromotedKeys THEN 4 ELSE 2)

ContextFlagsIn(tokens) == {k \in 1..Len(tokens) : tokens[k] = "--context"}
StackNamePairsIn(tokens) ==
  {k \in 1..(Len(tokens) - 1) :
     tokens[k] = "--context" /\ tokens[k + 1] = "StackName=" \o BName}

\* C6: the builder's output holds the pair '--context', 'StackName=<N>' exactly
\* once, after every '--parameters' flag and every '--context' flag that comes
\* from a parameter (any '--context' other than the ScriptPath one).
StackNameContextOnce ==
  Built =>
    /\ Cardinality(StackNamePairsIn(Flags)) = 1
    /\ \A j \in StackNamePairsIn(Flags) : \A k \in 1..Len(Flags) :
         \/ k <= j
         \/ /\ Flags[k] # "--parameters"
            /\ Flags[k] = "--context" => (k = j + 2 /\ HasPrefix(Flags[k + 1], "ScriptPath="))

StackNameContextWitness ==
  /\ bPc = "_buildParams"
  /\ Len(MeantParameters) = 2
  /\ MeantParameters[1].ParameterKey = "StackName"
  /\ MeantParameters[1].ParameterValue = BName
  /\ MeantParameters[2].ParameterKey = "ResourcePrefix"
  /\ ScriptGiven
  /\ Cardinality(StackNamePairsIn(bOut)) = 1

ParametersTokenBare ==
  Built =>
    \A i \in 1..Len(MeantParameters) :
      Flags[FlagAt(MeantParameters, i) + 1] =
        BName \o ":" \o MeantParameters[i].ParameterKey \o "="
              \o MeantParameters[i].ParameterValue

\* C8, amended: the token right after each '--parameters' is the string S:K=V
\* between two double-quote characters.
ParametersTokenQuoted ==
  Built =>
    \A i \in 1..Len(MeantParameters) :
      Flags[FlagAt(MeantParameters, i) + 1] =
        "\"" \o BName \o ":" \o MeantParameters[i].ParameterKey \o "="
             \o MeantParameters[i].ParameterValue \o "\""

ParametersTokenWitness ==
  /\ Built
  /\ BName = "S"
  /\ MeantParameters = <<[ParameterKey |-> "Foo", ParameterValue |-> "Bar"]>>
  /\ Flags[8] = "\"S:Foo=Bar\""

RECURSIVE ValuesAfter(_, _)
\* The tokens that follow each occurrence of flag, in order.
ValuesAfter(tokens, flag) ==
  IF Len(tokens) < 2 THEN <<>>
  ELSE IF Head(tokens) = flag
       THEN <<tokens[2]>> \o ValuesAfter(Tail(Tail(tokens)), flag)
       ELSE ValuesAfter(Tail(tokens), flag)

\* C10: a list in the script position with nothing in the third position is
\* taken as the parameter list and the script as absent: the builder's output is
\* its output for (name, no script, that list) and has no ScriptPath context.  So
\* destroy(name, P) runs 'destroy', name, '--force', the global flags, one
\* '--parameters' flag per element of P in order and, last, the StackName context.
ListInScriptPosition ==
  (Built /\ bArgs[2].t = "array" /\ bArgs[3].t = "undefined") =>
    /\ Flags = _buildParams(BName, Undefined, bArgs[2])
    /\ \A k \in 1..Len(bOut) : ~HasPrefix(bOut[k], "ScriptPath=")
    /\ bPc = "destroy" =>
         /\ SubSeq(bOut, 1, 9) =
              <<"destroy", BName, "--force", "--profile", AWS_PROFILE, "--region",
                AWS_REGION, "--require-approval", "never">>
         /\ ValuesAfter(bOut, "--parameters") =
              [i \in 1..Len(bArgs[2].v) |->
                 "\"" \o BName \o ":" \o bArgs[2].v[i].ParameterKey \o "="
                      \o bArgs[2].v[i].ParameterValue \o "\""]
         /\ SubSeq(bOut, Len(bOut) - 1, Len(bOut)) =
              <<"--context", "StackName=" \o BName>>

ListInScriptPositionWitness ==
  /\ bPc = "destroy"
  /\ bArgs[2] = Arr(<<>>)
  /\ Len(bOut) = 11

==========================================================================
